---- MODULE Spec2Model ----
(***************************************************************************)
(* Model of juce_MessageManager.cpp: the MessageManager singleton, its     *)
(* message queue protocol (postMessageToQueue, deliverMessage,             *)
(* stopDispatchLoop, runDispatchLoopUntil) and the MessageManagerLock.     *)
(*                                                                         *)
(* Every thread executes the statements of the source one shared-memory    *)
(* access at a time; pc[t] is the statement thread t executes next.        *)
(*                                                                         *)
(* Assumptions: memory is sequentially consistent; a thread does not       *)
(* construct a MessageManagerLock inside the scope of another one of its   *)
(* own; ~MessageManager and setCurrentMessageThread are not called.  In    *)
(* Spec and SpecLock the first getInstance() is made by the main thread    *)
(* alone; SpecInst lets every thread call it at any time.                  *)
(***************************************************************************)
EXTENDS Integers, Sequences, FiniteSets

\* ---------------------------------------------------------------- bounds
\* number of Message objects that may be allocated (user posts + sentinels)
MaxMsgs == 3
\* of which Spec and SpecLock, where every kind of call is made, allocate
MaxPosts == 2

\* ------------------------------------------------------------- constants
\* static const int quitMessageId = 0xfffff321: as a 32-bit int, 0xfffff321 - 2^32
quitMessageId == 0 - 3295
\* an intParameter1 that is not the quit id
otherMessageId == 0
\* the thread that first touches the coordinator (the application's main thread)
MainThread == 1
\* Thread objects started by the application
Workers == {2, 3}
Threads == {MainThread} \cup Workers
\* the null thread id / null pointer
NoThread == 0
NullRecipient == 0
\* the MessageListener objects of the application: deliverMessage looks at a
\* recipient only through messageListeners.contains, one identity stands for all
Recipients == {1}
MsgIds == 1..MaxMsgs
IntParams == {quitMessageId, otherMessageId}

VARIABLES
    instance,               \* MessageManager::instance (0 = null, else object number)
    nConstructed,           \* how many MessageManager objects were constructed
    nPlatformInit,          \* how many times doPlatformSpecificInitialisation ran
    giResult,               \* per thread: pointer returned by its last getInstance()
    messageThreadId,        \* fields of the object instance points to
    currentLockingThreadId,
    messageDispatchLock,    \* owner of the CriticalSection, NoThread when free
    messageListeners,
    quitMessagePosted,
    quitMessageReceived,
    systemQueue,            \* the OS queue behind juce_postMessageToSystemQueue
    messageRecipient,       \* per Message: m->messageRecipient
    intParameter1,          \* per Message: m->intParameter1
    nextMsg,                \* number of Message objects allocated so far
    handled,                \* per Message: calls of recipient->handleMessage (*m)
    destroyed,              \* per Message: executions of delete m
    accepted,               \* per Message: the shim returned true for it
    postedLate,             \* per Message: passed to post after a stopDispatchLoop returned
    refused,                \* per Message: the shim returned false for it
    goneAtPop,              \* per Message: its recipient had been deregistered when it was popped
    aheadOfQuit,            \* Messages accepted before the sentinel of a stopDispatchLoop was
    deregistered,           \* recipients whose deregistration call has happened
    pc,                     \* per thread: next statement
    cur,                    \* per thread: the Message it posts or delivers
    locked,                 \* per thread: MessageManagerLock::locked of its lock object
    lastLockingThreadId,    \* per thread: MessageManagerLock::lastLockingThreadId
    idBeforeEnter,          \* per thread: currentLockingThreadId when it acquired the mutex
    cancellable,            \* per thread: its lock object was constructed with a Thread*
    shouldExit,             \* per thread: Thread::threadShouldExit()
    millisecondsToRunFor,   \* argument of the running runDispatchLoopUntil
    loopResult,             \* value returned by the last runDispatchLoopUntil
    caught,                 \* the last handleMessage threw into JUCE_CATCH_EXCEPTION
    stoppedInLoop,          \* a stopDispatchLoop returned during the running runDispatchLoop()
    threw,                  \* per Message: its handleMessage threw
    dispatchedAny           \* the last runDispatchLoopUntil has called the dispatch shim

coordVars == <<messageThreadId, currentLockingThreadId, messageDispatchLock,
               messageListeners, quitMessagePosted, quitMessageReceived>>
instVars == <<instance, nConstructed, nPlatformInit, giResult>>
msgVars == <<messageRecipient, intParameter1, nextMsg, handled, destroyed,
             accepted, postedLate, refused, goneAtPop, aheadOfQuit>>
lockVars == <<locked, lastLockingThreadId, idBeforeEnter, cancellable>>
loopVars == <<millisecondsToRunFor, loopResult, caught, stoppedInLoop, threw,
              dispatchedAny>>
vars == <<instVars, coordVars, systemQueue, msgVars, deregistered, pc, cur,
          lockVars, shouldExit, loopVars>>

\* ------------------------------------------------------------ helpers
Thread_getCurrentThreadId(t) == t

\* bool MessageManager::isThisTheMessageThread() const
isThisTheMessageThread(t) == Thread_getCurrentThreadId(t) = messageThreadId

\* bool MessageManager::currentThreadHasLockedMessageManager() const
currentThreadHasLockedMessageManager(t) ==
    Thread_getCurrentThreadId(t) = currentLockingThreadId

\* user code runs on t: between calls, inside a lock's scope, inside handleMessage
InUserCode(t) == pc[t] \in {"idle", "held", "handle"}

\* the holder of the logical message-thread role
IsLogicalMessageThread(t) ==
    \/ currentLockingThreadId = NoThread /\ t = messageThreadId
    \/ currentLockingThreadId = t

Init ==
    /\ instance = 0
    /\ nConstructed = 0
    /\ nPlatformInit = 0
    /\ giResult = [t \in Threads |-> 0]
    /\ messageThreadId = NoThread
    /\ currentLockingThreadId = NoThread
    /\ messageDispatchLock = NoThread
    /\ messageListeners = {}
    /\ quitMessagePosted = FALSE
    /\ quitMessageReceived = FALSE
    /\ systemQueue = <<>>
    /\ messageRecipient = [m \in MsgIds |-> NullRecipient]
    /\ intParameter1 = [m \in MsgIds |-> otherMessageId]
    /\ nextMsg = 0
    /\ handled = [m \in MsgIds |-> 0]
    /\ destroyed = [m \in MsgIds |-> 0]
    /\ accepted = [m \in MsgIds |-> FALSE]
    /\ postedLate = [m \in MsgIds |-> FALSE]
    /\ refused = [m \in MsgIds |-> FALSE]
    /\ goneAtPop = [m \in MsgIds |-> FALSE]
    /\ aheadOfQuit = {}
    /\ deregistered = {}
    /\ pc = [t \in Threads |-> "idle"]
    /\ cur = [t \in Threads |-> 0]
    /\ locked = [t \in Threads |-> FALSE]
    /\ lastLockingThreadId = [t \in Threads |-> NoThread]
    /\ idBeforeEnter = [t \in Threads |-> NoThread]
    /\ cancellable = [t \in Threads |-> FALSE]
    /\ shouldExit = [t \in Threads |-> FALSE]
    /\ millisecondsToRunFor = 0
    /\ loopResult = "none"
    /\ caught = FALSE
    /\ stoppedInLoop = FALSE
    /\ threw = [m \in MsgIds |-> FALSE]
    /\ dispatchedAny = FALSE

\* ------------------------------------------------- MessageManager::getInstance
\* if (instance == 0)
GetInstanceTest(t) ==
    /\ pc[t] = "idle"
    /\ pc' = [pc EXCEPT ![t] = IF instance = 0 THEN "gi_new" ELSE "gi_return"]
    /\ UNCHANGED <<instVars, coordVars, systemQueue, msgVars, deregistered, cur,
                   lockVars, shouldExit, loopVars>>

\* instance = new MessageManager();  (the constructor, lines 55-62)
GetInstanceNew(t) ==
    /\ pc[t] = "gi_new"
    /\ nConstructed' = nConstructed + 1
    /\ instance' = nConstructed + 1
    /\ messageListeners' = {}
    /\ quitMessagePosted' = FALSE
    /\ quitMessageReceived' = FALSE
    /\ currentLockingThreadId' = NoThread
    /\ messageDispatchLock' = NoThread
    /\ messageThreadId' = Thread_getCurrentThreadId(t)
    /\ pc' = [pc EXCEPT ![t] = "gi_init"]
    /\ UNCHANGED <<nPlatformInit, giResult, systemQueue, msgVars, deregistered,
                   cur, lockVars, shouldExit, loopVars>>

\* doPlatformSpecificInitialisation();
GetInstanceInit(t) ==
    /\ pc[t] = "gi_init"
    /\ nPlatformInit' = nPlatformInit + 1
    /\ pc' = [pc EXCEPT ![t] = "gi_return"]
    /\ UNCHANGED <<instance, nConstructed, giResult, coordVars, systemQueue,
                   msgVars, deregistered, cur, lockVars, shouldExit, loopVars>>

\* return instance;
GetInstanceReturn(t) ==
    /\ pc[t] = "gi_return"
    /\ giResult' = [giResult EXCEPT ![t] = instance]
    /\ pc' = [pc EXCEPT ![t] = "idle"]
    /\ UNCHANGED <<instance, nConstructed, nPlatformInit, coordVars, systemQueue,
                   msgVars, deregistered, cur, lockVars, shouldExit, loopVars>>

\* ------------------------------------------ MessageListener (de)registration
\* messageListeners.add (this): done by the holder of the message-thread role
RegisterListener(t, r) ==
    /\ InUserCode(t)
    /\ instance # 0
    /\ IsLogicalMessageThread(t)
    /\ r \notin messageListeners
    /\ r \notin deregistered
    /\ messageListeners' = messageListeners \cup {r}
    /\ UNCHANGED <<instVars, messageThreadId, currentLockingThreadId,
                   messageDispatchLock, quitMessagePosted, quitMessageReceived,
                   systemQueue, msgVars, deregistered, pc, cur, lockVars,
                   shouldExit, loopVars>>

\* messageListeners.removeValue (this)
DeregisterListener(t, r) ==
    /\ InUserCode(t)
    /\ instance # 0
    /\ IsLogicalMessageThread(t)
    /\ r \in messageListeners
    /\ messageListeners' = messageListeners \ {r}
    /\ deregistered' = deregistered \cup {r}
    /\ UNCHANGED <<instVars, messageThreadId, currentLockingThreadId,
                   messageDispatchLock, quitMessagePosted, quitMessageReceived,
                   systemQueue, msgVars, pc, cur, lockVars, shouldExit, loopVars>>

\* ------------------------------------------ MessageManager::postMessageToQueue
\* delete m: the object is gone, and so are its fields
DeleteMessage(m) ==
    /\ destroyed' = [destroyed EXCEPT ![m] = @ + 1]
    /\ messageRecipient' = [messageRecipient EXCEPT ![m] = NullRecipient]
    /\ intParameter1' = [intParameter1 EXCEPT ![m] = otherMessageId]

\* PostTestQuit that hands the message to the shim whatever quitMessagePosted is
PostTestQuit_IgnoresQuit(t, m, r, p, shimPc) ==
    /\ nextMsg' = m
    /\ postedLate' = [postedLate EXCEPT ![m] = quitMessagePosted]
    /\ destroyed' = destroyed
    /\ messageRecipient' = [messageRecipient EXCEPT ![m] = r]
    /\ intParameter1' = [intParameter1 EXCEPT ![m] = p]
    /\ pc' = [pc EXCEPT ![t] = shimPc]
    /\ cur' = [cur EXCEPT ![t] = m]

\* postMessageToQueue (message) with a new Message m (recipient r, intParameter1 p):
\* if (quitMessagePosted ...  delete message;   (first operand of the ||)
PostTestQuit(t, m, r, p, shimPc) ==
    /\ nextMsg' = m
    /\ postedLate' = [postedLate EXCEPT ![m] = quitMessagePosted]
    /\ IF quitMessagePosted
         THEN /\ destroyed' = [destroyed EXCEPT ![m] = @ + 1]
              /\ UNCHANGED <<messageRecipient, intParameter1>>
              /\ pc' = [pc EXCEPT ![t] = IF shimPc = "stop_shim" THEN "stop_set" ELSE "idle"]
              /\ cur' = [cur EXCEPT ![t] = 0]
         ELSE /\ destroyed' = destroyed
              /\ messageRecipient' = [messageRecipient EXCEPT ![m] = r]
              /\ intParameter1' = [intParameter1 EXCEPT ![m] = p]
              /\ pc' = [pc EXCEPT ![t] = shimPc]
              /\ cur' = [cur EXCEPT ![t] = m]

\* postMessageToQueue (message) called by user code with a Message it allocated;
\* a null recipient with quitMessageId is the coordinator's own message, which
\* only stopDispatchLoop makes
PostMessage(t, r, p) ==
    /\ pc[t] = "idle"
    /\ instance # 0
    /\ ~(r = NullRecipient /\ p = quitMessageId)
    /\ nextMsg < MaxMsgs
    /\ PostTestQuit(t, nextMsg + 1, r, p, "post_shim")
    /\ UNCHANGED <<instVars, coordVars, systemQueue, handled, accepted, refused,
                   goneAtPop, aheadOfQuit, deregistered, lockVars, shouldExit,
                   loopVars>>

\* ... || ! juce_postMessageToSystemQueue (message))  delete message;
PostShim(t, shimAccepts) ==
    /\ pc[t] \in {"post_shim", "stop_shim"}
    /\ IF shimAccepts
         THEN /\ systemQueue' = Append(systemQueue, cur[t])
              /\ accepted' = [accepted EXCEPT ![cur[t]] = TRUE]
              /\ aheadOfQuit' = IF pc[t] = "stop_shim"
                                  THEN aheadOfQuit \cup {m \in MsgIds : accepted[m]}
                                  ELSE aheadOfQuit
              /\ UNCHANGED <<destroyed, messageRecipient, intParameter1, refused>>
         ELSE /\ DeleteMessage(cur[t])
              /\ refused' = [refused EXCEPT ![cur[t]] = TRUE]
              /\ UNCHANGED <<systemQueue, accepted, aheadOfQuit>>
    /\ pc' = [pc EXCEPT ![t] = IF pc[t] = "stop_shim" THEN "stop_set" ELSE "idle"]
    /\ cur' = [cur EXCEPT ![t] = 0]
    /\ UNCHANGED <<instVars, coordVars, nextMsg, handled, postedLate, goneAtPop,
                   deregistered, lockVars, shouldExit, loopVars>>

\* -------------------------------------------- MessageManager::stopDispatchLoop
\* Message* const m = new Message (quitMessageId, 0, 0, 0);
\* m->messageRecipient = 0;  postMessageToQueue (m);
StopDispatchLoop(t) ==
    /\ pc[t] = "idle"
    /\ instance # 0
    /\ nextMsg < MaxMsgs
    /\ PostTestQuit(t, nextMsg + 1, NullRecipient, quitMessageId, "stop_shim")
    /\ UNCHANGED <<instVars, coordVars, systemQueue, handled, accepted, refused,
                   goneAtPop, aheadOfQuit, deregistered, lockVars, shouldExit,
                   loopVars>>

\* quitMessagePosted = true;
StopSetQuitPosted(t) ==
    /\ pc[t] = "stop_set"
    /\ quitMessagePosted' = TRUE
    /\ stoppedInLoop' = (stoppedInLoop \/ millisecondsToRunFor < 0)
    /\ pc' = [pc EXCEPT ![t] = "idle"]
    /\ UNCHANGED <<instVars, messageThreadId, currentLockingThreadId,
                   messageDispatchLock, messageListeners, quitMessageReceived,
                   systemQueue, msgVars, deregistered, cur, lockVars, shouldExit,
                   millisecondsToRunFor, loopResult, caught, threw, dispatchedAny>>

\* ------------------------------ MessageManagerLock::MessageManagerLock()
\* the statement after the constructor returns: deliverMessage's body or the
\* scope of the lock object in user code
AfterCtor(p) == IF p \in {"dl_ctor", "dl_enter", "dl_read"}
                  THEN "dv_test" ELSE "held"

\* BlockingCtorTest that goes on to enter() without testing MessageManager::instance
BlockingCtorTest_IgnoresInstance(t, at) ==
    /\ pc[t] = at
    /\ locked' = [locked EXCEPT ![t] = FALSE]
    /\ lastLockingThreadId' = [lastLockingThreadId EXCEPT ![t] = NoThread]
    /\ cancellable' = [cancellable EXCEPT ![t] = FALSE]
    /\ pc' = [pc EXCEPT ![t] = IF at = "dl_ctor" THEN "dl_enter" ELSE "b_enter"]
    /\ UNCHANGED <<instVars, coordVars, systemQueue, msgVars, deregistered, cur,
                   idBeforeEnter, shouldExit, loopVars>>

\* lastLockingThreadId (0), locked (false);  if (MessageManager::instance != 0)
BlockingCtorTest(t, at) ==
    /\ pc[t] = at
    /\ locked' = [locked EXCEPT ![t] = FALSE]
    /\ lastLockingThreadId' = [lastLockingThreadId EXCEPT ![t] = NoThread]
    /\ cancellable' = [cancellable EXCEPT ![t] = FALSE]
    /\ pc' = [pc EXCEPT ![t] = IF instance # 0
                                 THEN (IF at = "dl_ctor" THEN "dl_enter" ELSE "b_enter")
                                 ELSE AfterCtor(at)]
    /\ UNCHANGED <<instVars, coordVars, systemQueue, msgVars, deregistered, cur,
                   idBeforeEnter, shouldExit, loopVars>>

\* a MessageManagerLock constructed in user code
BlockingCtor(t) == BlockingCtorTest(t, "idle")

\* BlockingEnter with an enter() that does not wait for the mutex to be free
BlockingEnter_NoWait(t) ==
    /\ pc[t] \in {"b_enter", "dl_enter"}
    /\ messageDispatchLock' = t
    /\ idBeforeEnter' = [idBeforeEnter EXCEPT ![t] = currentLockingThreadId]
    /\ pc' = [pc EXCEPT ![t] = IF pc[t] = "dl_enter" THEN "dl_read" ELSE "b_read"]
    /\ UNCHANGED <<instVars, messageThreadId, currentLockingThreadId,
                   messageListeners, quitMessagePosted, quitMessageReceived,
                   systemQueue, msgVars, deregistered, cur, locked,
                   lastLockingThreadId, cancellable, shouldExit, loopVars>>

\* MessageManager::instance->messageDispatchLock.enter();
BlockingEnter(t) ==
    /\ pc[t] \in {"b_enter", "dl_enter"}
    /\ messageDispatchLock = NoThread
    /\ messageDispatchLock' = t
    /\ idBeforeEnter' = [idBeforeEnter EXCEPT ![t] = currentLockingThreadId]
    /\ pc' = [pc EXCEPT ![t] = IF pc[t] = "dl_enter" THEN "dl_read" ELSE "b_read"]
    /\ UNCHANGED <<instVars, messageThreadId, currentLockingThreadId,
                   messageListeners, quitMessagePosted, quitMessageReceived,
                   systemQueue, msgVars, deregistered, cur, locked,
                   lastLockingThreadId, cancellable, shouldExit, loopVars>>

\* LockSetCurrent that forgets to write currentLockingThreadId
LockSetCurrent_NoWrite(t) ==
    /\ pc[t] \in {"b_read", "dl_read", "c_read"}
    /\ lastLockingThreadId' = [lastLockingThreadId EXCEPT ![t] = currentLockingThreadId]
    /\ locked' = [locked EXCEPT ![t] = TRUE]
    /\ pc' = [pc EXCEPT ![t] = AfterCtor(pc[t])]
    /\ UNCHANGED <<instVars, coordVars, systemQueue, msgVars, deregistered, cur,
                   idBeforeEnter, cancellable, shouldExit, loopVars>>

\* LockSetCurrent that swaps the message thread's identity as well
LockSetCurrent_SwapsMessageThread(t) ==
    /\ pc[t] \in {"b_read", "dl_read", "c_read"}
    /\ lastLockingThreadId' = [lastLockingThreadId EXCEPT ![t] = currentLockingThreadId]
    /\ currentLockingThreadId' = Thread_getCurrentThreadId(t)
    /\ messageThreadId' = Thread_getCurrentThreadId(t)
    /\ locked' = [locked EXCEPT ![t] = TRUE]
    /\ pc' = [pc EXCEPT ![t] = AfterCtor(pc[t])]
    /\ UNCHANGED <<instVars, messageDispatchLock, messageListeners,
                   quitMessagePosted, quitMessageReceived, systemQueue, msgVars,
                   deregistered, cur, idBeforeEnter, cancellable, shouldExit,
                   loopVars>>

\* lastLockingThreadId = MessageManager::instance->currentLockingThreadId;
\* MessageManager::instance->currentLockingThreadId = Thread::getCurrentThreadId();
\* locked = true;
\* (one step: the thread owns messageDispatchLock, under which every write of
\* currentLockingThreadId is made)
LockSetCurrent(t) ==
    /\ pc[t] \in {"b_read", "dl_read", "c_read"}
    /\ lastLockingThreadId' = [lastLockingThreadId EXCEPT ![t] = currentLockingThreadId]
    /\ currentLockingThreadId' = Thread_getCurrentThreadId(t)
    /\ locked' = [locked EXCEPT ![t] = TRUE]
    /\ pc' = [pc EXCEPT ![t] = AfterCtor(pc[t])]
    /\ UNCHANGED <<instVars, messageThreadId, messageDispatchLock, messageListeners,
                   quitMessagePosted, quitMessageReceived, systemQueue, msgVars,
                   deregistered, cur, idBeforeEnter, cancellable, shouldExit,
                   loopVars>>

\* ----------------------- MessageManagerLock::MessageManagerLock (Thread*)
\* locked (false);  if (MessageManager::instance != 0)  for (;;)
CancellableCtor(t) ==
    /\ pc[t] = "idle"
    /\ t \in Workers
    /\ locked' = [locked EXCEPT ![t] = FALSE]
    /\ cancellable' = [cancellable EXCEPT ![t] = TRUE]
    /\ pc' = [pc EXCEPT ![t] = IF instance # 0 THEN "c_try" ELSE "held"]
    /\ UNCHANGED <<instVars, coordVars, systemQueue, msgVars, deregistered, cur,
                   lastLockingThreadId, idBeforeEnter, shouldExit, loopVars>>

\* CancellableTryEnter that goes on as the owner whatever tryEnter() returned
CancellableTryEnter_IgnoresResult(t) ==
    /\ pc[t] = "c_try"
    /\ IF messageDispatchLock = NoThread
         THEN /\ messageDispatchLock' = t
              /\ idBeforeEnter' = [idBeforeEnter EXCEPT ![t] = currentLockingThreadId]
         ELSE UNCHANGED <<messageDispatchLock, idBeforeEnter>>
    /\ locked' = [locked EXCEPT ![t] = TRUE]
    /\ pc' = [pc EXCEPT ![t] = "c_read"]
    /\ UNCHANGED <<instVars, messageThreadId, currentLockingThreadId,
                   messageListeners, quitMessagePosted, quitMessageReceived,
                   systemQueue, msgVars, deregistered, cur, lastLockingThreadId,
                   cancellable, shouldExit, loopVars>>

\* if (MessageManager::instance->messageDispatchLock.tryEnter())  locked = true;
CancellableTryEnter(t) ==
    /\ pc[t] = "c_try"
    /\ IF messageDispatchLock = NoThread
         THEN /\ messageDispatchLock' = t
              /\ idBeforeEnter' = [idBeforeEnter EXCEPT ![t] = currentLockingThreadId]
              /\ locked' = [locked EXCEPT ![t] = TRUE]
              /\ pc' = [pc EXCEPT ![t] = "c_read"]
         ELSE /\ pc' = [pc EXCEPT ![t] = "c_poll"]
              /\ UNCHANGED <<messageDispatchLock, idBeforeEnter, locked>>
    /\ UNCHANGED <<instVars, messageThreadId, currentLockingThreadId,
                   messageListeners, quitMessagePosted, quitMessageReceived,
                   systemQueue, msgVars, deregistered, cur, lastLockingThreadId,
                   cancellable, shouldExit, loopVars>>

\* CancellablePoll that retries without looking at threadShouldExit()
CancellablePoll_IgnoresShouldExit(t) ==
    /\ pc[t] = "c_poll"
    /\ pc' = [pc EXCEPT ![t] = "c_try"]
    /\ UNCHANGED <<instVars, coordVars, systemQueue, msgVars, deregistered, cur,
                   lockVars, shouldExit, loopVars>>

\* if (thread != 0 && thread->threadShouldExit()) break;  Thread::sleep (1);
CancellablePoll(t) ==
    /\ pc[t] = "c_poll"
    /\ pc' = [pc EXCEPT ![t] = IF shouldExit[t] THEN "held" ELSE "c_try"]
    /\ UNCHANGED <<instVars, coordVars, systemQueue, msgVars, deregistered, cur,
                   lockVars, shouldExit, loopVars>>

\* Thread::signalThreadShouldExit() called by the owner of worker w; the flag is
\* read by the cancellable constructor only, so it is raised while w is in it
SignalThreadShouldExit(w) ==
    /\ w \in Workers
    /\ pc[w] \in {"c_try", "c_poll"}
    /\ ~shouldExit[w]
    /\ shouldExit' = [shouldExit EXCEPT ![w] = TRUE]
    /\ UNCHANGED <<instVars, coordVars, systemQueue, msgVars, deregistered, pc,
                   cur, lockVars, loopVars>>

\* ----------------------------- MessageManagerLock::~MessageManagerLock()
\* LockDtor that does not put lastLockingThreadId back
LockDtor_NoRestore(t) ==
    /\ pc[t] \in {"held", "dl_dtor"}
    /\ IF locked[t] /\ instance # 0
         THEN /\ pc' = [pc EXCEPT ![t] = IF pc[t] = "held" THEN "d_exit" ELSE "dl_exit"]
              /\ UNCHANGED <<locked, cancellable>>
         ELSE /\ pc' = [pc EXCEPT ![t] = IF pc[t] = "held" THEN "idle" ELSE "loop_test"]
              /\ locked' = [locked EXCEPT ![t] = FALSE]
              /\ cancellable' = [cancellable EXCEPT ![t] = FALSE]
    /\ UNCHANGED <<instVars, coordVars, systemQueue, msgVars, deregistered, cur,
                   lastLockingThreadId, idBeforeEnter, shouldExit, loopVars>>

\* LockDtor that restores and releases without testing locked
LockDtor_IgnoresLocked(t) ==
    /\ pc[t] \in {"held", "dl_dtor"}
    /\ IF instance # 0
         THEN /\ currentLockingThreadId' = lastLockingThreadId[t]
              /\ pc' = [pc EXCEPT ![t] = IF pc[t] = "held" THEN "d_exit" ELSE "dl_exit"]
              /\ UNCHANGED <<locked, cancellable>>
         ELSE /\ currentLockingThreadId' = currentLockingThreadId
              /\ pc' = [pc EXCEPT ![t] = IF pc[t] = "held" THEN "idle" ELSE "loop_test"]
              /\ locked' = [locked EXCEPT ![t] = FALSE]
              /\ cancellable' = [cancellable EXCEPT ![t] = FALSE]
    /\ UNCHANGED <<instVars, messageThreadId, messageDispatchLock, messageListeners,
                   quitMessagePosted, quitMessageReceived, systemQueue, msgVars,
                   deregistered, cur, lastLockingThreadId, idBeforeEnter,
                   shouldExit, loopVars>>

\* if (locked && MessageManager::instance != 0)
\*     MessageManager::instance->currentLockingThreadId = lastLockingThreadId;
LockDtor(t) ==
    /\ pc[t] \in {"held", "dl_dtor"}
    /\ IF locked[t] /\ instance # 0
         THEN /\ currentLockingThreadId' = lastLockingThreadId[t]
              /\ pc' = [pc EXCEPT ![t] = IF pc[t] = "held" THEN "d_exit" ELSE "dl_exit"]
              /\ UNCHANGED <<locked, cancellable>>
         ELSE /\ currentLockingThreadId' = currentLockingThreadId
              /\ pc' = [pc EXCEPT ![t] = IF pc[t] = "held" THEN "idle" ELSE "loop_test"]
              /\ locked' = [locked EXCEPT ![t] = FALSE]
              /\ cancellable' = [cancellable EXCEPT ![t] = FALSE]
    /\ UNCHANGED <<instVars, messageThreadId, messageDispatchLock, messageListeners,
                   quitMessagePosted, quitMessageReceived, systemQueue, msgVars,
                   deregistered, cur, lastLockingThreadId, idBeforeEnter,
                   shouldExit, loopVars>>

\*     MessageManager::instance->messageDispatchLock.exit();
LockDtorExit(t) ==
    /\ pc[t] \in {"d_exit", "dl_exit"}
    /\ messageDispatchLock' = NoThread
    /\ locked' = [locked EXCEPT ![t] = FALSE]
    /\ cancellable' = [cancellable EXCEPT ![t] = FALSE]
    /\ pc' = [pc EXCEPT ![t] = IF pc[t] = "d_exit" THEN "idle" ELSE "loop_test"]
    /\ UNCHANGED <<instVars, messageThreadId, currentLockingThreadId,
                   messageListeners, quitMessagePosted, quitMessageReceived,
                   systemQueue, msgVars, deregistered, cur, lastLockingThreadId,
                   idBeforeEnter, shouldExit, loopVars>>

\* --------------------------------------- MessageManager::runDispatchLoopUntil
\* the values of millisecondsToRunFor that are told apart: runDispatchLoop()
\* passes -1, a caller with a deadline a positive number
NoDeadline == 0 - 1
Deadline == 1

\* jassert (isThisTheMessageThread());  endTime = now + millisecondsToRunFor;
RunDispatchLoopUntil(t, ms) ==
    /\ pc[t] = "idle"
    /\ instance # 0
    /\ isThisTheMessageThread(t)
    /\ millisecondsToRunFor' = ms
    /\ loopResult' = "none"
    /\ dispatchedAny' = FALSE
    /\ UNCHANGED <<caught, stoppedInLoop, threw>>
    /\ pc' = [pc EXCEPT ![t] = "loop_test"]
    /\ UNCHANGED <<instVars, coordVars, systemQueue, msgVars, deregistered, cur,
                   lockVars, shouldExit>>

\* LoopTest that returns quitMessageReceived instead of ! quitMessageReceived
LoopTest_ReturnsQuitReceived(t, beforeEndTime) ==
    /\ pc[t] = "loop_test"
    /\ IF (millisecondsToRunFor < 0 \/ beforeEndTime) /\ ~quitMessageReceived
         THEN /\ pc' = [pc EXCEPT ![t] = "dispatch"]
              /\ UNCHANGED loopVars
         ELSE /\ pc' = [pc EXCEPT ![t] = "idle"]
              /\ loopResult' = IF quitMessageReceived THEN "true" ELSE "false"
              /\ millisecondsToRunFor' = 0
              /\ stoppedInLoop' = FALSE
              /\ UNCHANGED <<caught, threw, dispatchedAny>>
    /\ UNCHANGED <<instVars, coordVars, systemQueue, msgVars, deregistered, cur,
                   lockVars, shouldExit>>

\* LoopTest whose loop condition lacks && ! quitMessageReceived
LoopTest_IgnoresQuit(t, beforeEndTime) ==
    /\ pc[t] = "loop_test"
    /\ IF millisecondsToRunFor < 0 \/ beforeEndTime
         THEN /\ pc' = [pc EXCEPT ![t] = "dispatch"]
              /\ UNCHANGED loopVars
         ELSE /\ pc' = [pc EXCEPT ![t] = "idle"]
              /\ loopResult' = IF ~quitMessageReceived THEN "true" ELSE "false"
              /\ millisecondsToRunFor' = 0
              /\ stoppedInLoop' = FALSE
              /\ UNCHANGED <<caught, threw, dispatchedAny>>
    /\ UNCHANGED <<instVars, coordVars, systemQueue, msgVars, deregistered, cur,
                   lockVars, shouldExit>>

\* while ((millisecondsToRunFor < 0 || endTime > Time::currentTimeMillis())
\*         && ! quitMessageReceived)   ...   return ! quitMessageReceived;
LoopTest(t, beforeEndTime) ==
    /\ pc[t] = "loop_test"
    /\ IF (millisecondsToRunFor < 0 \/ beforeEndTime) /\ ~quitMessageReceived
         THEN /\ pc' = [pc EXCEPT ![t] = "dispatch"]
              /\ UNCHANGED loopVars
         ELSE /\ pc' = [pc EXCEPT ![t] = "idle"]
              /\ loopResult' = IF ~quitMessageReceived THEN "true" ELSE "false"
              /\ millisecondsToRunFor' = 0
              /\ stoppedInLoop' = FALSE
              /\ UNCHANGED <<caught, threw, dispatchedAny>>
    /\ UNCHANGED <<instVars, coordVars, systemQueue, msgVars, deregistered, cur,
                   lockVars, shouldExit>>

\* juce_dispatchNextMessageOnSystemQueue (millisecondsToRunFor >= 0): pops one
\* message and calls deliverMessage with it; with an empty queue it returns
\* when returnIfNoPendingMessages, else it waits
DispatchNextMessage(t) ==
    /\ pc[t] = "dispatch"
    /\ dispatchedAny' = TRUE
    /\ IF systemQueue = <<>>
         THEN /\ millisecondsToRunFor >= 0
              /\ pc' = [pc EXCEPT ![t] = "loop_test"]
              /\ UNCHANGED <<systemQueue, cur, goneAtPop, caught>>
         ELSE /\ systemQueue' = Tail(systemQueue)
              /\ caught' = FALSE
              /\ cur' = [cur EXCEPT ![t] = Head(systemQueue)]
              /\ goneAtPop' = [goneAtPop EXCEPT ![Head(systemQueue)] =
                                  messageRecipient[Head(systemQueue)] \in deregistered]
              /\ pc' = [pc EXCEPT ![t] = "dl_ctor"]
    /\ UNCHANGED <<instVars, coordVars, messageRecipient, intParameter1, nextMsg,
                   handled, destroyed, accepted, postedLate, refused, aheadOfQuit,
                   deregistered, lockVars, shouldExit, millisecondsToRunFor,
                   loopResult, stoppedInLoop, threw>>

\* --------------------------------------------- MessageManager::deliverMessage
\* const MessageManagerLock lock;
DeliverCtor(t) == BlockingCtorTest(t, "dl_ctor")

\* DeliverTest that calls every non-null recipient without asking messageListeners
DeliverTest_NoRegistryCheck(t) ==
    /\ pc[t] = "dv_test"
    /\ LET m == cur[t]
           recipient == messageRecipient[m]
       IN IF recipient # NullRecipient
            THEN /\ handled' = [handled EXCEPT ![m] = @ + 1]
                 /\ pc' = [pc EXCEPT ![t] = "handle"]
                 /\ UNCHANGED <<quitMessageReceived, destroyed, cur,
                                messageRecipient, intParameter1>>
            ELSE /\ quitMessageReceived' =
                        (quitMessageReceived \/ intParameter1[m] = quitMessageId)
                 /\ destroyed' = [destroyed EXCEPT ![m] = @ + 1]
                 /\ messageRecipient' = [messageRecipient EXCEPT ![m] = NullRecipient]
                 /\ intParameter1' = [intParameter1 EXCEPT ![m] = otherMessageId]
                 /\ cur' = [cur EXCEPT ![t] = 0]
                 /\ pc' = [pc EXCEPT ![t] = "dl_dtor"]
                 /\ UNCHANGED handled
    /\ UNCHANGED <<instVars, messageThreadId, currentLockingThreadId,
                   messageDispatchLock, messageListeners, quitMessagePosted,
                   systemQueue, nextMsg, accepted, postedLate, refused, goneAtPop,
                   aheadOfQuit, deregistered, lockVars, shouldExit, loopVars>>

\* DeliverTest whose second branch tests the tag only, not recipient == 0
DeliverTest_TagOnly(t) ==
    /\ pc[t] = "dv_test"
    /\ LET m == cur[t]
           recipient == messageRecipient[m]
       IN IF recipient \in messageListeners
            THEN /\ handled' = [handled EXCEPT ![m] = @ + 1]
                 /\ pc' = [pc EXCEPT ![t] = "handle"]
                 /\ UNCHANGED <<quitMessageReceived, destroyed, cur,
                                messageRecipient, intParameter1>>
            ELSE /\ quitMessageReceived' =
                        (quitMessageReceived \/ intParameter1[m] = quitMessageId)
                 /\ DeleteMessage(m)
                 /\ cur' = [cur EXCEPT ![t] = 0]
                 /\ pc' = [pc EXCEPT ![t] = "dl_dtor"]
                 /\ UNCHANGED handled
    /\ UNCHANGED <<instVars, messageThreadId, currentLockingThreadId,
                   messageDispatchLock, messageListeners, quitMessagePosted,
                   systemQueue, nextMsg, accepted, postedLate, refused, goneAtPop,
                   aheadOfQuit, deregistered, lockVars, shouldExit, loopVars>>

\* if (messageListeners.contains (recipient))  recipient->handleMessage (*m);
\* else if (recipient == 0 && m->intParameter1 == quitMessageId)
\*     quitMessageReceived = true;
\* (when handleMessage is not called:)  delete m;
DeliverTest(t) ==
    /\ pc[t] = "dv_test"
    /\ LET m == cur[t]
           recipient == messageRecipient[m]
       IN IF recipient \in messageListeners
            THEN /\ handled' = [handled EXCEPT ![m] = @ + 1]
                 /\ pc' = [pc EXCEPT ![t] = "handle"]
                 /\ UNCHANGED <<quitMessageReceived, destroyed, cur,
                                messageRecipient, intParameter1>>
            ELSE /\ quitMessageReceived' =
                        (quitMessageReceived
                           \/ (recipient = NullRecipient /\ intParameter1[m] = quitMessageId))
                 /\ DeleteMessage(m)
                 /\ cur' = [cur EXCEPT ![t] = 0]
                 /\ pc' = [pc EXCEPT ![t] = "dl_dtor"]
                 /\ UNCHANGED handled
    /\ UNCHANGED <<instVars, messageThreadId, currentLockingThreadId,
                   messageDispatchLock, messageListeners, quitMessagePosted,
                   systemQueue, nextMsg, accepted, postedLate, refused, goneAtPop,
                   aheadOfQuit, deregistered, lockVars, shouldExit, loopVars>>

\* HandleMessageEnds without the exception barrier: a throw skips delete m
HandleMessageEnds_ThrowSkipsDelete(t, throws) ==
    /\ pc[t] = "handle"
    /\ caught' = throws
    /\ threw' = [threw EXCEPT ![cur[t]] = throws]
    /\ IF throws
         THEN UNCHANGED <<destroyed, messageRecipient, intParameter1>>
         ELSE DeleteMessage(cur[t])
    /\ cur' = [cur EXCEPT ![t] = 0]
    /\ pc' = [pc EXCEPT ![t] = "dl_dtor"]
    /\ UNCHANGED <<instVars, coordVars, systemQueue, nextMsg, handled, accepted,
                   postedLate, refused, goneAtPop, aheadOfQuit, deregistered,
                   lockVars, shouldExit, millisecondsToRunFor, loopResult,
                   stoppedInLoop, dispatchedAny>>

\* HandleMessageEnds whose throw escapes deliverMessage and the dispatch loop:
\* neither delete m nor the destructor of the lock runs
HandleMessageEnds_ThrowEndsLoop(t, throws) ==
    /\ pc[t] = "handle"
    /\ caught' = throws
    /\ threw' = [threw EXCEPT ![cur[t]] = throws]
    /\ IF throws
         THEN /\ pc' = [pc EXCEPT ![t] = "idle"]
              /\ UNCHANGED <<destroyed, messageRecipient, intParameter1>>
         ELSE /\ pc' = [pc EXCEPT ![t] = "dl_dtor"]
              /\ DeleteMessage(cur[t])
    /\ cur' = [cur EXCEPT ![t] = 0]
    /\ UNCHANGED <<instVars, coordVars, systemQueue, nextMsg, handled, accepted,
                   postedLate, refused, goneAtPop, aheadOfQuit, deregistered,
                   lockVars, shouldExit, millisecondsToRunFor, loopResult,
                   stoppedInLoop, dispatchedAny>>

\* handleMessage returns, or throws into JUCE_CATCH_EXCEPTION;  delete m;
HandleMessageEnds(t, throws) ==
    /\ pc[t] = "handle"
    /\ caught' = throws
    /\ threw' = [threw EXCEPT ![cur[t]] = throws]
    /\ DeleteMessage(cur[t])
    /\ cur' = [cur EXCEPT ![t] = 0]
    /\ pc' = [pc EXCEPT ![t] = "dl_dtor"]
    /\ UNCHANGED <<instVars, coordVars, systemQueue, nextMsg, handled, accepted,
                   postedLate, refused, goneAtPop, aheadOfQuit, deregistered,
                   lockVars, shouldExit, millisecondsToRunFor, loopResult,
                   stoppedInLoop, dispatchedAny>>

\* ------------------------------------------------------------ specifications
\* the first call of getInstance(), made by the application's main thread
FirstGetInstance ==
    \/ instance = 0 /\ GetInstanceTest(MainThread)
    \/ GetInstanceNew(MainThread)
    \/ GetInstanceInit(MainThread)
    \/ GetInstanceReturn(MainThread)

\* the statements that follow a call's first one, whoever made the call
Continue(t) ==
    \/ \E shimAccepts \in BOOLEAN : PostShim(t, shimAccepts)
    \/ BlockingEnter(t)
    \/ LockSetCurrent(t)
    \/ LockDtor(t)
    \/ LockDtorExit(t)
    \/ \E beforeEndTime \in BOOLEAN : LoopTest(t, beforeEndTime)
    \/ DispatchNextMessage(t)
    \/ DeliverCtor(t)
    \/ DeliverTest(t)
    \/ \E throws \in BOOLEAN : HandleMessageEnds(t, throws)

\* the message protocol: any thread posts and stops, the message thread
\* registers listeners and runs the dispatch loop
MessageCall(t) ==
    \/ \E r \in Recipients : RegisterListener(t, r)
    \/ \E r \in Recipients : DeregisterListener(t, r)
    \/ nextMsg < MaxPosts
         /\ \E r \in Recipients \cup {NullRecipient}, p \in IntParams : PostMessage(t, r, p)
    \/ nextMsg < MaxPosts /\ StopDispatchLoop(t)
    \/ \E ms \in {NoDeadline, Deadline} : RunDispatchLoopUntil(t, ms)

Next ==
    \/ FirstGetInstance
    \/ \E t \in Threads : (MessageCall(t) \/ StopSetQuitPosted(t) \/ Continue(t))

Spec == Init /\ [][Next]_vars

\* every thread that is inside a call goes on executing it
FairSpec ==
    Spec /\ \A t \in Threads : WF_vars(StopSetQuitPosted(t) \/ Continue(t))

\* the lock: workers take MessageManagerLocks of both kinds while the message
\* thread delivers messages to a listener
LockCall(t) ==
    \/ \E r \in Recipients : RegisterListener(t, r)
    \/ \E r \in Recipients : DeregisterListener(t, r)
    \/ t = MainThread /\ nextMsg < MaxPosts
         /\ \E r \in Recipients : PostMessage(t, r, otherMessageId)
    \/ RunDispatchLoopUntil(t, NoDeadline)
    \/ BlockingCtor(t)
    \/ CancellableCtor(t)
    \/ CancellableTryEnter(t)
    \/ CancellablePoll(t)
    \/ SignalThreadShouldExit(t)

NextLock == FirstGetInstance \/ \E t \in Threads : (LockCall(t) \/ Continue(t))

SpecLock == Init /\ [][NextLock]_vars

\* a worker inside the cancellable constructor keeps running (tryEnter, the
\* test of threadShouldExit and sleep (1) all return); nothing is assumed of
\* the other threads, which may hold messageDispatchLock for ever
FairSpecLock ==
    SpecLock /\ \A w \in Workers :
        WF_vars(CancellableTryEnter(w) \/ CancellablePoll(w) \/ LockSetCurrent(w))

\* getInstance() called by any thread at any time
NextInst ==
    \E t \in Threads :
        \/ GetInstanceTest(t)
        \/ GetInstanceNew(t)
        \/ GetInstanceInit(t)
        \/ GetInstanceReturn(t)

SpecInst == Init /\ [][NextInst]_vars

\* shutdown under contention: the workers post to a listener and call
\* stopDispatchLoop while the message thread runs runDispatchLoop()
StopCall(t) ==
    \/ \E r \in Recipients : RegisterListener(t, r)
    \/ t \in Workers /\ \E r \in Recipients : PostMessage(t, r, otherMessageId)
    \/ t \in Workers /\ StopDispatchLoop(t)
    \/ RunDispatchLoopUntil(t, NoDeadline)

NextStop ==
    \/ FirstGetInstance
    \/ \E t \in Threads : (StopCall(t) \/ StopSetQuitPosted(t) \/ Continue(t))

SpecStop == Init /\ [][NextStop]_vars

\* ------------------------------------------------------------------ claims
\* t is inside deliverMessage, its MessageManagerLock constructed and not yet
\* being destroyed
InDeliverBody(t) == pc[t] \in {"dv_test", "handle", "dl_dtor"}

\* between the start and the end of recipient->handleMessage (*m)
InHandleMessage(t) == pc[t] = "handle"

\* a constructor of t's MessageManagerLock has returned with locked = true and
\* its destructor has not started
HoldsLock(t) == locked[t] /\ (pc[t] = "held" \/ InDeliverBody(t))

\* t has a MessageManagerLock object with locked = true
HasLockedLock(t) == locked[t]

\* C1: at most one thread has a MessageManagerLock with locked = true, whichever
\* constructor or deliverMessage made it, and while a worker has one the message
\* thread is not inside a recipient's handleMessage
C1_MutualExclusion ==
    /\ \A t, u \in Threads : HasLockedLock(t) /\ HasLockedLock(u) => t = u
    /\ \A w \in Workers :
         HasLockedLock(w) => \A t \in Threads \ {w} : ~InHandleMessage(t)

\* a worker holds the lock while the message thread, with a message popped,
\* waits in deliverMessage for messageDispatchLock
C1_Witness ==
    \E w \in Workers :
        /\ HoldsLock(w)
        /\ pc[MainThread] = "dl_enter"
        /\ messageDispatchLock = w

\* C2: while thread t holds a MessageManagerLock (constructor returned with
\* locked = true, destructor not started) currentThreadHasLockedMessageManager()
\* is true on t and false on every other thread; and never true on two threads
C2_ThreadRoleExclusivity ==
    /\ \A t \in Threads :
         HoldsLock(t) =>
            \A u \in Threads : currentThreadHasLockedMessageManager(u) <=> (u = t)
    /\ Cardinality({u \in Threads : currentThreadHasLockedMessageManager(u)}) <= 1

\* a worker holds a lock taken with the cancellable constructor against contention
C2_Witness ==
    \E w \in Workers :
        /\ HoldsLock(w)
        /\ cancellable[w]
        /\ currentThreadHasLockedMessageManager(w)
        /\ pc[MainThread] = "dl_enter"

\* a worker (not the message thread) holds a lock made by the blocking constructor
HoldsBlockingLock(w) ==
    /\ w # messageThreadId
    /\ pc[w] = "held"
    /\ locked[w]
    /\ ~cancellable[w]

\* C3 as stated: isThisTheMessageThread() is true on a worker that holds a
\* blocking MessageManagerLock
C3_WorkerIsMessageThread ==
    \A w \in Threads : HoldsBlockingLock(w) => isThisTheMessageThread(w)

\* C3 amended: on a worker (a thread other than the one that constructed the
\* MessageManager) that holds a blocking MessageManagerLock
\* isThisTheMessageThread() is false and currentThreadHasLockedMessageManager()
\* is true; the lock leaves messageThreadId alone, so isThisTheMessageThread()
\* stays true on the thread that constructed the MessageManager
C3_LockLeavesMessageThread ==
    \A w \in Workers :
        (pc[w] = "held" /\ locked[w] /\ ~cancellable[w]) =>
            /\ ~isThisTheMessageThread(w)
            /\ currentThreadHasLockedMessageManager(w)
            /\ isThisTheMessageThread(MainThread)

\* a worker holds a blocking lock while the message thread is stopped in deliverMessage
C3_Witness ==
    \E w \in Workers : HoldsBlockingLock(w) /\ pc[MainThread] = "dl_enter"

\* C4: when the destructor of a MessageManagerLock that was constructed with
\* locked = true has run, currentLockingThreadId is what it was when the
\* constructor acquired messageDispatchLock, and the thread no longer owns the
\* mutex; also in deliverMessage after the handler threw
C4_RoundTrip ==
    [][\A t \in Threads :
          (pc[t] \in {"d_exit", "dl_exit"} /\ pc'[t] # pc[t]) =>
              /\ currentLockingThreadId' = idBeforeEnter[t]
              /\ messageDispatchLock' # t]_vars

\* deliverMessage has returned after its handler threw: the destructor of its
\* lock has run and a worker has taken the lock since
C4_Witness ==
    /\ caught
    /\ pc[MainThread] \in {"loop_test", "dispatch"}
    /\ \E w \in Workers : HoldsLock(w) /\ idBeforeEnter[w] = NoThread

\* C8: deliverMessage calls handleMessage only for a recipient that is in
\* messageListeners at that moment; a message whose recipient was deregistered
\* before the message was popped is never handled
C8_RegistryGating ==
    /\ [](\A m \in MsgIds : goneAtPop[m] => handled[m] = 0)
    /\ [][\A t \in Threads :
            (pc[t] = "dv_test" /\ pc'[t] = "handle") =>
                messageRecipient[cur[t]] \in messageListeners]_vars

\* a recipient was registered, MaxPosts messages were posted to it, it was
\* deregistered before any was popped, and all are delivered: no call
C8_Witness ==
    /\ nextMsg = MaxPosts
    /\ \A m \in 1..MaxPosts : goneAtPop[m] /\ destroyed[m] = 1 /\ handled[m] = 0

\* C5: every getInstance() returns the same object, the MessageManager is
\* constructed at most once and doPlatformSpecificInitialisation runs once,
\* also when the first calls of several threads interleave
C5_SingletonIdentity ==
    /\ nConstructed <= 1
    /\ nPlatformInit <= 1
    /\ \A t, u \in Threads :
         (giResult[t] # 0 /\ giResult[u] # 0) => giResult[t] = giResult[u]

\* where Message m is: in the OS queue, or with a thread that posts or delivers it
InQueue(m) == \E i \in 1..Len(systemQueue) : systemQueue[i] = m
HeldBy(m) == {t \in Threads : cur[t] = m}

\* C6: a Message passed to postMessageToQueue is handled at most once and deleted
\* at most once; once deleted it is in no queue and with no thread, so it is not
\* handled afterwards; a handled message is deleted when handleMessage ends; a
\* message dropped by post is never handled; until it is deleted it is in exactly
\* one place
C6_DeliverOrDrop ==
    \A m \in MsgIds :
        /\ handled[m] <= 1
        /\ destroyed[m] <= 1
        /\ destroyed[m] = 1 => (~InQueue(m) /\ HeldBy(m) = {})
        /\ (handled[m] = 1 /\ HeldBy(m) = {}) => destroyed[m] = 1
        /\ handled[m] = 1 => (accepted[m] /\ ~postedLate[m] /\ ~refused[m])
        /\ (m <= nextMsg /\ destroyed[m] = 0) =>
              /\ InQueue(m) <=> (HeldBy(m) = {})
              /\ Cardinality(HeldBy(m)) <= 1
              /\ Cardinality({i \in 1..Len(systemQueue) : systemQueue[i] = m}) <= 1

\* one message went to its recipient and was deleted, another was deleted by
\* deliverMessage without a call
C6_Witness ==
    \E m, n \in MsgIds :
        /\ handled[m] = 1 /\ destroyed[m] = 1
        /\ handled[n] = 0 /\ destroyed[n] = 1 /\ accepted[n]

\* the message thread is inside runDispatchLoopUntil
LoopPcs == {"loop_test", "dispatch", "dl_ctor", "dl_enter", "dl_read", "dv_test",
            "handle", "dl_dtor", "dl_exit"}

\* C7: once the dispatch loop has exited on the quit message, every message the
\* shim accepted has been deleted (delivered or dropped): none is left queued
C7_NoLeakedMessage ==
    (quitMessageReceived /\ pc[MainThread] \notin LoopPcs) =>
        \A m \in MsgIds : accepted[m] => destroyed[m] = 1

\* C9: a message passed to post after a stopDispatchLoop returned, or refused by
\* the shim, is deleted at once, never accepted, queued or handled; and
\* quitMessagePosted is never cleared
C9_PostAfterQuit ==
    /\ [](\A m \in MsgIds :
            (postedLate[m] \/ refused[m]) =>
                /\ destroyed[m] = 1
                /\ handled[m] = 0
                /\ ~accepted[m]
                /\ ~InQueue(m)
                /\ HeldBy(m) = {})
    /\ [][quitMessagePosted => quitMessagePosted']_vars

\* stopDispatchLoop returned with its sentinel queued, and a message posted
\* afterwards to a registered recipient is gone
C9_Witness ==
    /\ quitMessagePosted
    /\ messageListeners # {}
    /\ \E m, n \in MsgIds : accepted[m] /\ postedLate[n] /\ destroyed[n] = 1

\* C10: after stopDispatchLoop() has returned, a running runDispatchLoop()
\* (no deadline) eventually exits
C10_QuitLiveness == stoppedInLoop ~> (pc[MainThread] \notin LoopPcs)

\* C11: when runDispatchLoop() (no deadline) exits, every message that had
\* been accepted into the queue before a stopDispatchLoop's sentinel was
\* accepted has gone through deliverMessage (it is deleted)
C11_QueuedFirst ==
    [][(/\ pc[MainThread] = "loop_test"
        /\ pc'[MainThread] = "idle"
        /\ millisecondsToRunFor < 0) =>
            \A m \in aheadOfQuit : destroyed[m] = 1]_vars

\* C12: a message whose handler threw was handled exactly once and is deleted;
\* between deliveries the dispatching thread owns neither messageDispatchLock
\* nor the locking identity; a throw leaves the thread inside the dispatch loop,
\* and runDispatchLoop() exits only with quitMessageReceived set
C12_ExceptionContainment ==
    /\ [](\A m \in MsgIds :
            threw[m] => /\ handled[m] = 1
                        /\ destroyed[m] = 1
                        /\ ~InQueue(m)
                        /\ HeldBy(m) = {})
    /\ [](\A t \in Threads :
            pc[t] \in {"loop_test", "dispatch"} =>
                /\ messageDispatchLock # t
                /\ currentLockingThreadId # t)
    /\ [][\A t \in Threads :
            (pc[t] = "handle" /\ pc'[t] # "handle") => pc'[t] \in LoopPcs]_vars
    /\ [][(/\ pc[MainThread] = "loop_test"
            /\ pc'[MainThread] = "idle"
            /\ millisecondsToRunFor < 0) => quitMessageReceived]_vars

\* MaxMsgs - 1 messages were posted to a recipient whose handler threw on each,
\* then the sentinel: one attempt each, all deleted, mutex free, loop exited
C12_Witness ==
    /\ nextMsg = MaxMsgs
    /\ pc[MainThread] = "idle"
    /\ loopResult = "false"
    /\ systemQueue = <<>>
    /\ messageDispatchLock = NoThread
    /\ Cardinality({m \in MsgIds : threw[m] /\ handled[m] = 1 /\ destroyed[m] = 1})
          = MaxMsgs - 1
    /\ \A m \in MsgIds : destroyed[m] = 1

\* t is inside MessageManagerLock (Thread*)
InCancellableCtor(t) == pc[t] \in {"c_try", "c_poll", "c_read"}

\* C13: once threadShouldExit() is true for a worker, its cancellable
\* constructor returns (locked or not), however long other threads hold
\* messageDispatchLock; the constructor never reaches the blocking enter()
C13_CancellableProgress ==
    /\ \A w \in Workers :
          (shouldExit[w] /\ InCancellableCtor(w)) ~> (pc[w] = "held")
    /\ [](\A w \in Workers : cancellable[w] => pc[w] # "b_enter")

\* a worker's cancellable constructor has returned without the lock, after
\* threadShouldExit() became true, while another thread owns the mutex
C13_Witness ==
    \E w \in Workers :
        /\ pc[w] = "held"
        /\ cancellable[w]
        /\ ~locked[w]
        /\ shouldExit[w]
        /\ messageDispatchLock \notin {NoThread, w}

\* the cancellable constructor of b's lock has returned with locked = false
CancelledLock(b) == pc[b] = "held" /\ cancellable[b] /\ ~locked[b]

\* C14: a cancellable lock that ends with locked = false changes nothing: no
\* step of its constructor or destructor changes currentLockingThreadId or the
\* owner of messageDispatchLock, it owns neither, and a thread that holds a
\* lock meanwhile still owns the mutex and the locking identity
C14_CancelledLockNoOp ==
    /\ [](\A b \in Workers :
            CancelledLock(b) =>
                /\ messageDispatchLock # b
                /\ currentLockingThreadId # b
                /\ \A a \in Threads \ {b} :
                      HoldsLock(a) => /\ messageDispatchLock = a
                                      /\ currentThreadHasLockedMessageManager(a))
    /\ [][\A b \in Workers :
            (/\ cancellable[b] \/ cancellable'[b]
             /\ ~locked[b] /\ ~locked'[b]
             /\ pc[b] \in {"idle", "c_try", "c_poll", "held"}
             /\ pc'[b] # pc[b]) =>
                /\ currentLockingThreadId' = currentLockingThreadId
                /\ messageDispatchLock' = messageDispatchLock]_vars

\* worker a holds a blocking lock, threadShouldExit() became true for worker b
\* and b's cancellable constructor has returned without the lock
C14_Witness ==
    \E a, b \in Workers :
        /\ a # b
        /\ pc[a] = "held" /\ locked[a] /\ ~cancellable[a]
        /\ CancelledLock(b)
        /\ shouldExit[b]
        /\ instance # 0

\* t is at a statement of a MessageManagerLock that touches the MessageManager
InLockBody(t) ==
    pc[t] \in {"b_enter", "b_read", "c_try", "c_poll", "c_read", "d_exit"}

\* C15: while MessageManager::instance is null, constructing a
\* MessageManagerLock of either kind and destroying it create no
\* MessageManager, acquire no mutex and leave locked = false; a lock constructed
\* then stays a no-op when the MessageManager is created during its lifetime
C15_LockOnMissingSingleton ==
    /\ [](instance = 0 =>
            /\ messageDispatchLock = NoThread
            /\ currentLockingThreadId = NoThread
            /\ \A t \in Threads : ~locked[t] /\ ~InLockBody(t))
    /\ [](\A t \in Threads :
            (pc[t] = "held" /\ ~locked[t]) => messageDispatchLock # t)
    /\ [][\A t \in Threads :
            (/\ instance = 0
             /\ pc[t] \in {"idle", "held"}
             /\ pc'[t] \in {"idle", "held"}
             /\ pc'[t] # pc[t]) =>
                /\ instance' = 0
                /\ nConstructed' = nConstructed
                /\ nPlatformInit' = nPlatformInit
                /\ UNCHANGED coordVars
                /\ ~locked'[t]]_vars

\* before the MessageManager exists one worker is in the scope of a cancellable
\* lock and another in the scope of a blocking one, both with locked = false
C15_Witness ==
    \E a, b \in Workers :
        /\ instance = 0
        /\ pc[a] = "held" /\ cancellable[a] /\ ~locked[a]
        /\ pc[b] = "held" /\ ~cancellable[b] /\ ~locked[b]

\* C16: quitMessageReceived never goes from true to false; once it is true the
\* loop test ends the loop, the dispatch shim is not called and nothing is
\* taken from the queue any more, in this and in every later call
C16_QuitReceivedSticky ==
    /\ [][quitMessageReceived => quitMessageReceived']_vars
    /\ [][\A t \in Threads :
            (quitMessageReceived /\ pc[t] = "loop_test" /\ pc'[t] # "loop_test") =>
                pc'[t] = "idle"]_vars
    /\ [](quitMessageReceived => \A t \in Threads : pc[t] # "dispatch")
    /\ [][quitMessageReceived => Len(systemQueue') >= Len(systemQueue)]_vars
    /\ [][(quitMessageReceived /\ ~dispatchedAny) => ~dispatchedAny']_vars

\* a call of runDispatchLoopUntil made after the quit message was received has
\* returned false without calling the shim, though a message is in the queue
C16_Witness ==
    /\ quitMessageReceived
    /\ pc[MainThread] = "idle"
    /\ loopResult = "false"
    /\ ~dispatchedAny
    /\ systemQueue # <<>>

\* C17: quitMessagePosted is read (by postMessageToQueue) and written (by
\* stopDispatchLoop) only by the thread that holds the logical message-thread
\* role, and stopDispatchLoop never writes it while another thread is between
\* postMessageToQueue's test of the flag and its call of the shim
C17_QuitFlagPolicy ==
    /\ [][\A t \in Threads :
            (pc[t] = "idle" /\ pc'[t] \in {"post_shim", "stop_shim", "stop_set"}) =>
                IsLogicalMessageThread(t)]_vars
    /\ [][\A t \in Threads :
            (pc[t] = "stop_set" /\ pc'[t] = "idle") =>
                /\ IsLogicalMessageThread(t)
                /\ \A u \in Threads \ {t} : pc[u] \notin {"post_shim", "stop_shim"}]_vars

\* t returns from runDispatchLoopUntil in this step
LoopReturns(t) == pc[t] = "loop_test" /\ pc'[t] = "idle"

\* C18: runDispatchLoopUntil returns false exactly when quitMessageReceived is
\* true at the return; it returns true only from a call with a deadline, and a
\* call without deadline returns only with quitMessageReceived set, and false
C18_LoopResult ==
    /\ [][\A t \in Threads :
            LoopReturns(t) =>
                /\ loopResult' \in {"true", "false"}
                /\ (loopResult' = "false") <=> quitMessageReceived
                /\ (loopResult' = "true") => millisecondsToRunFor >= 0
                /\ millisecondsToRunFor < 0 =>
                      (quitMessageReceived /\ loopResult' = "false")]_vars
    /\ [](loopResult # "none" => ((loopResult = "false") <=> quitMessageReceived))

\* a call with a deadline returned true, by its deadline, while the quit
\* message was still in the queue
C18_Witness ==
    /\ pc[MainThread] = "idle"
    /\ loopResult = "true"
    /\ \E m \in MsgIds :
          /\ InQueue(m)
          /\ messageRecipient[m] = NullRecipient
          /\ intParameter1[m] = quitMessageId

\* C19: quitMessageReceived changes only when deliverMessage is given a message
\* with a null recipient and intParameter1 = quitMessageId, null not being in
\* messageListeners; a message with that tag for a registered recipient goes to
\* its handleMessage, one for a non-null unregistered recipient is deleted
\* without a call, and neither changes quitMessageReceived
C19_TieBreak ==
    /\ [][quitMessageReceived' # quitMessageReceived =>
              \E t \in Threads :
                  /\ pc[t] = "dv_test" /\ pc'[t] = "dl_dtor"
                  /\ messageRecipient[cur[t]] = NullRecipient
                  /\ intParameter1[cur[t]] = quitMessageId
                  /\ NullRecipient \notin messageListeners]_vars
    /\ [][\A t \in Threads :
            (/\ pc[t] = "dv_test" /\ pc'[t] # "dv_test"
             /\ intParameter1[cur[t]] = quitMessageId
             /\ messageRecipient[cur[t]] # NullRecipient) =>
                /\ quitMessageReceived' = quitMessageReceived
                /\ IF messageRecipient[cur[t]] \in messageListeners
                     THEN /\ pc'[t] = "handle"
                          /\ handled'[cur[t]] = handled[cur[t]] + 1
                          /\ destroyed'[cur[t]] = 0
                     ELSE /\ pc'[t] = "dl_dtor"
                          /\ handled'[cur[t]] = 0
                          /\ destroyed'[cur[t]] = 1]_vars

\* a message tagged quitMessageId is inside its registered recipient's
\* handleMessage, an earlier message was deleted by deliverMessage without a
\* call, and quitMessageReceived is false
C19_Witness ==
    /\ ~quitMessageReceived
    /\ \E t \in Threads :
          /\ pc[t] = "handle"
          /\ intParameter1[cur[t]] = quitMessageId
          /\ messageRecipient[cur[t]] \in messageListeners
    /\ \E n \in MsgIds : accepted[n] /\ destroyed[n] = 1 /\ handled[n] = 0

\* C20: a non-zero currentLockingThreadId is the thread that owns
\* messageDispatchLock, and while the mutex is free currentLockingThreadId is
\* zero; so currentThreadHasLockedMessageManager() is true only on the owner
C20_IdentityFollowsMutex ==
    /\ currentLockingThreadId # NoThread =>
          messageDispatchLock = currentLockingThreadId
    /\ messageDispatchLock = NoThread => currentLockingThreadId = NoThread
    /\ \A t \in Threads :
          currentThreadHasLockedMessageManager(t) => messageDispatchLock = t

\* after a delivery by the message thread a worker owns mutex and identity
\* through a cancellable lock, the other worker polls for it and the message
\* thread waits in deliverMessage
C20_Witness ==
    \E w, v \in Workers :
        /\ currentLockingThreadId = w
        /\ messageDispatchLock = w
        /\ cancellable[w]
        /\ pc[v] = "c_poll"
        /\ pc[MainThread] = "dl_enter"
        /\ \E m \in MsgIds : destroyed[m] = 1

TypeOK == pc \in [Threads -> STRING]

====
